---- MODULE Spec2Model ----
(***************************************************************************)
(* ErgoMap (src/src/lib.rs): a wrapper of std HashMap keyed by Id<T>, an   *)
(* opaque handle around a RawKey = [u8; 16].                               *)
(*                                                                         *)
(* The raw key is modelled at a reduced size: KeyWidth bytes over the      *)
(* alphabet Byte (the source has 16 bytes over 0..255).  Every derivation  *)
(* (big-endian encoding, zero padding, truncation) is computed as the code *)
(* computes it, on the reduced size.                                       *)
(*                                                                         *)
(* Program state: map (the HashMap), pc and cand (the position and the     *)
(* local id inside insert / Id::new_for).  History: last, pre, ret and     *)
(* visited record the call that has just returned, until the caller goes   *)
(* on (Continue); minted records the handles insert has returned since the *)
(* last remove or clear.  Spec keeps the history of every call, MintSpec   *)
(* and FairSpec keep minted and the calls of insert.                       *)
(* StaleSpec keeps stale, the handles whose entry remove or clear has      *)
(* dropped.  PairSpec runs two further containers a and b side by side     *)
(* (pair), b being a new container or a clone of a.                        *)
(***************************************************************************)
EXTENDS Integers, Sequences, FiniteSets, TLC

\* ---------------------------------------------------------------- bounds
MaxVal == 2
MaxStrLen == 3

\* ------------------------------------------------------ types of the code
KeyWidth == 2
Byte == {0, 1}
ByteBase == Cardinality(Byte)

RawKey == [1..KeyWidth -> Byte]
Value == 1..MaxVal

RECURSIVE Pow(_, _)
Pow(b, e) == IF e = 0 THEN 1 ELSE b * Pow(b, e - 1)

\* The integers a key of KeyWidth bytes can hold (u128 for 16 bytes).
KeyInt == 0..(Pow(ByteBase, KeyWidth) - 1)
StrBytes == UNION {[1..n -> Byte] : n \in 0..MaxStrLen}

\* enum Key { Random, Value(u128), Array([u8; 16]), Str(String) }
KeyRandom == <<"Random", 0>>
Key ==
    {KeyRandom}
        \cup {<<"Value", n>> : n \in KeyInt}
        \cup {<<"Array", a>> : a \in RawKey}
        \cup {<<"Str", s>> : s \in StrBytes}

\* Option<T>
None == <<>>
Some(x) == <<x>>
\* Option::unwrap: the value, or a panic on None.
unwrap(o) == [panic |-> o = None, val |-> IF o = None THEN 0 ELSE o[1]]

\* ------------------------------------------------------------ Id::new
\* u128::to_be_bytes: most significant byte first.
to_be_bytes(n) ==
    [i \in 1..KeyWidth |-> (n \div Pow(ByteBase, KeyWidth - i)) % ByteBase]

\* while v.len() < 16 { v.push(0x00) }
RECURSIVE pad(_)
pad(v) == IF Len(v) < KeyWidth THEN pad(Append(v, 0)) ELSE v

\* (mutant of split_array_ref: the last KeyWidth bytes are kept)
split_array_ref_last(v) == SubSeq(v, Len(v) - KeyWidth + 1, Len(v))

\* *v.as_slice().split_array_ref().0 : the first KeyWidth bytes.
split_array_ref(v) == SubSeq(v, 1, KeyWidth)

\* Id::new(key); rnd is the value thread_rng().gen() yields in this call.
Id_new(key, rnd) ==
    CASE key[1] = "Random" -> rnd
      [] key[1] = "Value" -> to_be_bytes(key[2])
      [] key[1] = "Array" -> key[2]
      [] key[1] = "Str" -> split_array_ref(pad(key[2]))

\* The values thread_rng().gen() can yield in Id::new(key): any raw key for
\* Key::Random; the other keys draw nothing.
Draws(key) == IF key[1] = "Random" THEN RawKey ELSE {[i \in 1..KeyWidth |-> 0]}

\* ------------------------------------------------------- std HashMap
EmptyMap == <<>>
hm_insert(m, k, v) == [x \in DOMAIN m \cup {k} |-> IF x = k THEN v ELSE m[x]]
hm_remove(m, k) == [x \in DOMAIN m \ {k} |-> m[x]]
hm_get(m, k) == IF k \in DOMAIN m THEN Some(m[k]) ELSE None

\* --------------------------------------------- ErgoMap, read-only methods
\* (mutant of len: the room of the table is returned, not its entries)
len_capacity(m) == Cardinality(RawKey)

len(m) == Cardinality(DOMAIN m)
is_empty(m) == DOMAIN m = {}
\* self.map.capacity(): the numbers HashMap::capacity can yield for m, the
\* table having room for its entries at least.
capacity(m) == {c \in 0..Cardinality(RawKey) : c >= len(m)}
contains_id(m, id) == id \in DOMAIN m
\* (mutant of try_get: the handle's key is not compared, as an Id equality
\* over the type marker alone would do)
try_get_any(m, id) ==
    IF DOMAIN m = {} THEN None ELSE Some(m[CHOOSE k \in DOMAIN m : TRUE])

try_get(m, id) == hm_get(m, id)
\* self.map.get_mut(id): the reference, read at the moment it is returned.
try_get_mut(m, id) == hm_get(m, id)
\* (mutant of get: a missing entry yields a default value, as
\* unwrap_or_default would, and no panic)
get_or_default(m, id) ==
    [panic |-> FALSE, val |-> IF hm_get(m, id) = None THEN 0 ELSE m[id]]

\* self.map.get(id).unwrap()
get(m, id) == unwrap(hm_get(m, id))
\* self.map.get_mut(id).unwrap()
get_mut(m, id) == unwrap(try_get_mut(m, id))

\* -------------------------------------------- ErgoMap, mutating methods
\* Each gives the map after the call and the value returned.
\* (mutant of clear: nothing is removed)
clear_keeps(m) == [map |-> m, ret |-> None]

clear(m) == [map |-> EmptyMap, ret |-> None]

\* (mutant of insert: the value is never stored)
insert_not_stored(m, id, value) == [map |-> m, ret |-> id]

\* insert, after Id::new_for has returned id.
insert(m, id, value) == [map |-> hm_insert(m, id, value), ret |-> id]

\* (mutant of insert_as: the check for a key in use is missing)
insert_as_unchecked(m, id, value) ==
    [map |-> hm_insert(m, id, value), ret |-> Some(id)]

insert_as(m, id, value) ==
    IF contains_id(m, id)
    THEN [map |-> m, ret |-> None]
    ELSE [map |-> hm_insert(m, id, value), ret |-> Some(id)]

\* (mutant of force_insert_as: the new entry replaces the whole table)
force_insert_as_alone(m, id, value) ==
    [map |-> hm_insert(EmptyMap, id, value), ret |-> id]

\* (mutant of force_insert_as: an entry in use is kept, as or_insert would)
force_insert_as_keeps(m, id, value) ==
    [map |-> IF contains_id(m, id) THEN m ELSE hm_insert(m, id, value), ret |-> id]

force_insert_as(m, id, value) == [map |-> hm_insert(m, id, value), ret |-> id]

\* (mutant of remove: the entry goes and its value is not handed back)
remove_silent(m, id) == [map |-> hm_remove(m, id), ret |-> None]

\* (mutant of remove: the value is returned and the entry stays)
remove_keeps(m, id) == [map |-> m, ret |-> hm_get(m, id)]

remove(m, id) == [map |-> hm_remove(m, id), ret |-> hm_get(m, id)]

\* (mutant of new_for_retry: the drawn id is never checked against the map)
new_for_no_check(m, id) == FALSE

\* Id::new_for: the loop runs again while the drawn id is in use.
new_for_retry(m, id) == contains_id(m, id)

\* impl BuildId for bool (tests.rs): every value gives the same fixed key.
DeadBeef == Pow(ByteBase, KeyWidth) - 1
get_key(value) == <<"Value", DeadBeef>>

\* (mutant of build_insert: it forwards to force_insert_as)
build_insert_forced(m, value, rnd) ==
    LET r == force_insert_as(m, Id_new(get_key(value), rnd), value)
    IN [map |-> r.map, ret |-> Some(r.ret)]

\* self.insert_as(value.get_key(), value)
build_insert(m, value, rnd) == insert_as(m, Id_new(get_key(value), rnd), value)

\* self.force_insert_as(value.get_key(), value)
force_build_insert(m, value, rnd) ==
    force_insert_as(m, Id_new(get_key(value), rnd), value)

\* ------------------------------------------------------------- visitors
\* The closures passed to for_one / for_all: each yields a result from the
\* value; the _mut methods also store that result as the new value.
Visitor == {"ident", "bump"}
Visit(f, v) == IF f = "bump" THEN (v % MaxVal) + 1 ELSE v

\* self.map.get(id).map(f)
for_one(m, id, f) ==
    IF hm_get(m, id) = None
    THEN [map |-> m, ret |-> None, visited |-> <<>>]
    ELSE [map |-> m, ret |-> Some(Visit(f, m[id])), visited |-> <<<<id, m[id]>>>>]

\* (mutant of for_one_mut: the visitor works on a copy of the value)
for_one_mut_copy(m, id, f) == for_one(m, id, f)

\* self.map.get_mut(id).map(f)
for_one_mut(m, id, f) ==
    IF hm_get(m, id) = None
    THEN [map |-> m, ret |-> None, visited |-> <<>>]
    ELSE [map |-> hm_insert(m, id, Visit(f, m[id])),
          ret |-> Some(Visit(f, m[id])),
          visited |-> <<<<id, m[id]>>>>]

\* The orders in which HashMap::iter can yield the keys S: every entry once,
\* in an order the caller cannot choose.
RECURSIVE Orders(_)
Orders(S) ==
    IF S = {}
    THEN {<<>>}
    ELSE UNION {{<<x>> \o o : o \in Orders(S \ {x})} : x \in S}

\* for args in self.map.iter() { f.call_mut(args) }, over the order o.
RECURSIVE for_all(_, _)
for_all(m, o) ==
    IF o = <<>>
    THEN [map |-> m, visited |-> <<>>]
    ELSE LET rest == for_all(m, Tail(o))
         IN [map |-> m, visited |-> <<<<Head(o), m[Head(o)]>>>> \o rest.visited]

\* (mutant of for_all_mut: the loop ends after its first entry)
for_all_mut_first(m, o, f) ==
    IF o = <<>>
    THEN [map |-> m, visited |-> <<>>]
    ELSE [map |-> hm_insert(m, Head(o), Visit(f, m[Head(o)])),
          visited |-> <<<<Head(o), m[Head(o)]>>>>]

\* for args in self.map.iter_mut() { f.call_mut(args) }
RECURSIVE for_all_mut(_, _, _)
for_all_mut(m, o, f) ==
    IF o = <<>>
    THEN [map |-> m, visited |-> <<>>]
    ELSE LET rest == for_all_mut(m, Tail(o), f)
         IN [map |-> hm_insert(rest.map, Head(o), Visit(f, m[Head(o)])),
             visited |-> <<<<Head(o), m[Head(o)]>>>> \o rest.visited]

\* ---------------------------------------------------------------- state
VARIABLES
    map,      \* ErgoMap.map
    pc,       \* "idle", "new_for" (inside insert), "returned", "panicked"
    cand,     \* the local id of Id::new_for
    last,     \* the call made last: method, Key, handle, value, visitor
    pre,      \* the map when that call was made
    ret,      \* what the call returned
    visited,  \* the (handle, value) pairs the visitor was called with
    minted,   \* the inserts since the last remove or clear, and their handles
    probe,    \* which history is kept: "calls" (last, pre, ret, visited of
              \* every call), "mint" (minted, and the calls of insert only)
              \* or "stale" (stale)
    stale,    \* history kept under probe "stale": the handles whose entry
              \* remove or clear has dropped, at some time (ever) and with
              \* no insertion having returned the handle since (now)
    pair      \* two more containers of the same value type, a and b, each
              \* with the handles its insertions have returned (PairSpec)

vars == <<map, pc, cand, last, pre, ret, visited, minted, probe, stale, pair>>

NoKey == <<"none", 0>>
NoId == [i \in 1..KeyWidth |-> 0]
NoMint == [n |-> 0, ids |-> {}]
NoStale == [ever |-> {}, now |-> {}]
\* The handle an insertion has returned, if it returned one.
OptIds(o) == IF o = None THEN {} ELSE {o[1]}
Insertions ==
    {"insert", "insert_as", "force_insert_as", "build_insert", "force_build_insert"}
\* ErgoMap::new(), with no handle returned yet.
NewContainer == [map |-> EmptyMap, issued |-> {}, cloned |-> FALSE]
Call(op, key, id, val, f) ==
    [op |-> op, key |-> key, id |-> id, val |-> val, f |-> f]

Start(p) ==
    /\ map = EmptyMap
    /\ pc = "idle"
    /\ cand = NoId
    /\ last = Call("none", NoKey, NoId, 0, "none")
    /\ pre = EmptyMap
    /\ ret = None
    /\ visited = <<>>
    /\ minted = NoMint
    /\ probe = p
    /\ stale = NoStale
    /\ pair = [a |-> NewContainer, b |-> NewContainer]

\* ErgoMap::new()
Init == Start("calls")
MintInit == Start("mint")

\* The stale handles after the call op(id) has returned r on the map m.
StaleAfter(op, id, m, r) ==
    IF probe # "stale" THEN stale
    ELSE IF op = "remove" /\ r # None
    THEN [ever |-> stale.ever \cup {id}, now |-> stale.now \cup {id}]
    ELSE IF op = "clear"
    THEN [ever |-> stale.ever \cup DOMAIN m, now |-> stale.now \cup DOMAIN m]
    ELSE IF op \in Insertions
    THEN [stale EXCEPT !.now = @ \ OptIds(r)]
    ELSE stale

\* A method that runs to completion in one step: the map after it is m, it
\* returns r and has called its visitor with vis.
Done(call, m, r, vis) ==
    /\ pc = "idle"
    /\ pc' = "returned"
    /\ map' = m
    /\ IF probe = "calls"
       THEN /\ last' = call
            /\ pre' = map
            /\ ret' = r
            /\ visited' = vis
       ELSE /\ last' = Call(call.op, NoKey, NoId, 0, "none")
            /\ pre' = EmptyMap
            /\ ret' = None
            /\ visited' = <<>>
    /\ stale' = StaleAfter(call.op, call.id, map, r)
    /\ UNCHANGED <<cand, probe, pair>>

\* ---------------------------------------------------------------- insert
\* let id = Id::new_for(self): the first draw.
InsertCall(value, rnd) ==
    /\ pc = "idle"
    /\ pc' = "new_for"
    /\ cand' = Id_new(KeyRandom, rnd)
    /\ last' = Call("insert", KeyRandom, NoId, value, "none")
    /\ pre' = map
    /\ ret' = None
    /\ visited' = <<>>
    /\ UNCHANGED <<map, minted, probe, stale, pair>>

\* while map.contains_id(&id) { id = Id::new(Key::Random) }
NewForRetry(rnd) ==
    /\ pc = "new_for"
    /\ new_for_retry(map, cand)
    /\ cand' = Id_new(KeyRandom, rnd)
    /\ UNCHANGED <<map, pc, last, pre, ret, visited, minted, probe, stale, pair>>

\* self.map.insert(id, value); id
InsertReturn ==
    /\ pc = "new_for"
    /\ ~new_for_retry(map, cand)
    /\ LET r == insert(map, cand, last.val)
       IN /\ map' = r.map
          /\ ret' = Some(r.ret)
          /\ last' = [last EXCEPT !.id = r.ret]
          /\ minted' = IF probe = "mint"
                       THEN [n |-> minted.n + 1, ids |-> minted.ids \cup {r.ret}]
                       ELSE minted
          /\ stale' = StaleAfter("insert", r.ret, map, Some(r.ret))
    /\ pc' = "returned"
    /\ cand' = NoId
    /\ UNCHANGED <<pre, visited, probe, pair>>

\* ------------------------------------------------------ the other methods
InsertAs(key, value, rnd) ==
    LET id == Id_new(key, rnd)
        r == insert_as(map, id, value)
    IN /\ Done(Call("insert_as", key, id, value, "none"), r.map, r.ret, <<>>)
       /\ UNCHANGED minted

ForceInsertAs(key, value, rnd) ==
    LET id == Id_new(key, rnd)
        r == force_insert_as(map, id, value)
    IN /\ Done(Call("force_insert_as", key, id, value, "none"), r.map, Some(r.ret), <<>>)
       /\ UNCHANGED minted

BuildInsert(value, rnd) ==
    LET key == get_key(value)
        id == Id_new(key, rnd)
        r == build_insert(map, value, rnd)
    IN /\ Done(Call("build_insert", key, id, value, "none"), r.map, r.ret, <<>>)
       /\ UNCHANGED minted

ForceBuildInsert(value, rnd) ==
    LET key == get_key(value)
        id == Id_new(key, rnd)
        r == force_build_insert(map, value, rnd)
    IN /\ Done(Call("force_build_insert", key, id, value, "none"), r.map, Some(r.ret), <<>>)
       /\ UNCHANGED minted

Remove(id) ==
    LET r == remove(map, id)
    IN /\ Done(Call("remove", NoKey, id, 0, "none"), r.map, r.ret, <<>>)
       /\ minted' = NoMint

Clear ==
    LET r == clear(map)
    IN /\ Done(Call("clear", NoKey, NoId, 0, "none"), r.map, r.ret, <<>>)
       /\ minted' = NoMint

ContainsId(id) ==
    /\ Done(Call("contains_id", NoKey, id, 0, "none"), map, Some(contains_id(map, id)), <<>>)
    /\ UNCHANGED minted

TryGet(id) ==
    /\ Done(Call("try_get", NoKey, id, 0, "none"), map, try_get(map, id), <<>>)
    /\ UNCHANGED minted

\* get: the value, or a panic that ends the run.
Get(id) ==
    LET r == get(map, id)
    IN /\ pc = "idle"
       /\ pc' = IF r.panic THEN "panicked" ELSE "returned"
       /\ last' = Call("get", NoKey, IF probe = "calls" THEN id ELSE NoId, 0, "none")
       /\ pre' = IF probe = "calls" THEN map ELSE EmptyMap
       /\ ret' = IF r.panic \/ probe # "calls" THEN None ELSE Some(r.val)
       /\ visited' = <<>>
       /\ UNCHANGED <<map, cand, minted, probe, stale, pair>>

\* try_get_mut, and the caller's use of the reference: it stores the
\* visitor's result through it.
TryGetMut(id, f) ==
    LET r == try_get_mut(map, id)
        m == IF r = None THEN map ELSE hm_insert(map, id, Visit(f, r[1]))
    IN /\ Done(Call("try_get_mut", NoKey, id, 0, f), m, r, <<>>)
       /\ UNCHANGED minted

\* get_mut: the reference, used in the same way, or a panic that ends the run.
GetMut(id, f) ==
    LET r == get_mut(map, id)
    IN /\ pc = "idle"
       /\ pc' = IF r.panic THEN "panicked" ELSE "returned"
       /\ map' = IF r.panic THEN map ELSE hm_insert(map, id, Visit(f, r.val))
       /\ last' = IF probe = "calls"
                  THEN Call("get_mut", NoKey, id, 0, f)
                  ELSE Call("get_mut", NoKey, NoId, 0, "none")
       /\ pre' = IF probe = "calls" THEN map ELSE EmptyMap
       /\ ret' = IF r.panic \/ probe # "calls" THEN None ELSE Some(r.val)
       /\ visited' = <<>>
       /\ UNCHANGED <<cand, minted, probe, stale, pair>>

CallLen ==
    /\ Done(Call("len", NoKey, NoId, 0, "none"), map, Some(len(map)), <<>>)
    /\ UNCHANGED minted

CallCapacity ==
    \E c \in capacity(map) :
        /\ Done(Call("capacity", NoKey, NoId, 0, "none"), map, Some(c), <<>>)
        /\ UNCHANGED minted

CallIsEmpty ==
    /\ Done(Call("is_empty", NoKey, NoId, 0, "none"), map, Some(is_empty(map)), <<>>)
    /\ UNCHANGED minted

ForOne(id, f) ==
    LET r == for_one(map, id, f)
    IN /\ Done(Call("for_one", NoKey, id, 0, f), r.map, r.ret, r.visited)
       /\ UNCHANGED minted

ForOneMut(id, f) ==
    LET r == for_one_mut(map, id, f)
    IN /\ Done(Call("for_one_mut", NoKey, id, 0, f), r.map, r.ret, r.visited)
       /\ UNCHANGED minted

ForAll ==
    \E o \in Orders(DOMAIN map) :
        LET r == for_all(map, o)
        IN /\ Done(Call("for_all", NoKey, NoId, 0, "none"), r.map, None, r.visited)
           /\ UNCHANGED minted

ForAllMut(f) ==
    \E o \in Orders(DOMAIN map) :
        LET r == for_all_mut(map, o, f)
        IN /\ Done(Call("for_all_mut", NoKey, NoId, 0, f), r.map, None, r.visited)
           /\ UNCHANGED minted

\* The caller goes on to its next call: the record of the finished call is
\* dropped.  The map is not touched.
Continue ==
    /\ pc = "returned"
    /\ pc' = "idle"
    /\ last' = Call("none", NoKey, NoId, 0, "none")
    /\ pre' = EmptyMap
    /\ ret' = None
    /\ visited' = <<>>
    /\ UNCHANGED <<map, cand, minted, probe, stale, pair>>

Next ==
    \/ \E value \in Value, rnd \in RawKey : InsertCall(value, rnd)
    \/ \E rnd \in RawKey : NewForRetry(rnd)
    \/ InsertReturn
    \/ \E key \in Key, value \in Value : \E rnd \in Draws(key) : InsertAs(key, value, rnd)
    \/ \E key \in Key, value \in Value : \E rnd \in Draws(key) : ForceInsertAs(key, value, rnd)
    \/ \E value \in Value : \E rnd \in Draws(get_key(value)) : BuildInsert(value, rnd)
    \/ \E value \in Value : \E rnd \in Draws(get_key(value)) : ForceBuildInsert(value, rnd)
    \/ \E id \in RawKey : Remove(id)
    \/ Clear
    \/ \E id \in RawKey : ContainsId(id)
    \/ \E id \in RawKey : TryGet(id)
    \/ \E id \in RawKey : Get(id)
    \/ \E id \in RawKey, f \in Visitor : TryGetMut(id, f)
    \/ \E id \in RawKey, f \in Visitor : GetMut(id, f)
    \/ CallLen
    \/ CallIsEmpty
    \/ CallCapacity
    \/ \E id \in RawKey, f \in Visitor : ForOne(id, f)
    \/ \E id \in RawKey, f \in Visitor : ForOneMut(id, f)
    \/ ForAll
    \/ \E f \in Visitor : ForAllMut(f)
    \/ Continue

Spec == Init /\ [][Next]_vars
MintSpec == MintInit /\ [][Next]_vars
StaleInit == Start("stale")
StaleSpec == StaleInit /\ [][Next]_vars

\* Inside insert the thread keeps running: the loop of Id::new_for takes its
\* next step, the random source does not avoid the unused keys for ever, and
\* a loop that has ended goes on to the return.
FreshDraw ==
    \E rnd \in RawKey :
        NewForRetry(rnd) /\ ~new_for_retry(map, Id_new(KeyRandom, rnd))
FairSpec ==
    /\ MintInit
    /\ [][Next]_vars
    /\ WF_vars(\E rnd \in RawKey : NewForRetry(rnd))
    /\ WF_vars(FreshDraw)
    /\ WF_vars(InsertReturn)

\* ------------------------------------------------------- two containers
\* Two containers a and b of one value type, side by side. Each is a map and,
\* as history, the handles its own insertions have returned and whether it
\* was made by clone. Whether a handle resolves does not depend on the values
\* stored, so both containers store the one value of PairValue, and their
\* keys are the random and the array keys, which reach every raw key.
PairValue == {1}
PairKey == {k \in Key : k[1] \in {"Random", "Array"}}
Side == {"a", "b"}

\* The container c after an insertion with result r, whose handle (if one
\* was returned) joins the handles c has returned.
Issue(c, r, ids) == [c EXCEPT !.map = r.map, !.issued = @ \cup ids]

PairStep(s, c) ==
    /\ pair' = [pair EXCEPT ![s] = c]
    /\ UNCHANGED <<map, pc, cand, last, pre, ret, visited, minted, probe, stale>>

\* insert, run to its end: Id::new_for has left its loop with id.
PairInsert(s, value, id) ==
    /\ ~new_for_retry(pair[s].map, id)
    /\ LET r == insert(pair[s].map, id, value)
       IN PairStep(s, Issue(pair[s], r, {r.ret}))

PairInsertAs(s, key, value, rnd) ==
    LET r == insert_as(pair[s].map, Id_new(key, rnd), value)
    IN PairStep(s, Issue(pair[s], r, OptIds(r.ret)))

PairForceInsertAs(s, key, value, rnd) ==
    LET r == force_insert_as(pair[s].map, Id_new(key, rnd), value)
    IN PairStep(s, Issue(pair[s], r, {r.ret}))

PairBuildInsert(s, value, rnd) ==
    LET r == build_insert(pair[s].map, value, rnd)
    IN PairStep(s, Issue(pair[s], r, OptIds(r.ret)))

PairForceBuildInsert(s, value, rnd) ==
    LET r == force_build_insert(pair[s].map, value, rnd)
    IN PairStep(s, Issue(pair[s], r, {r.ret}))

PairRemove(s, id) == PairStep(s, Issue(pair[s], remove(pair[s].map, id), {}))

PairClear(s) == PairStep(s, Issue(pair[s], clear(pair[s].map), {}))

\* let b = ErgoMap::new()
PairNew == PairStep("b", NewContainer)

\* let b = a.clone() (#[derive(Clone)]): b starts with the entries of a and
\* has returned no handle itself.
PairClone == PairStep("b", [map |-> pair.a.map, issued |-> {}, cloned |-> TRUE])

PairInit == Start("pair")

PairNext ==
    \/ \E s \in Side, value \in PairValue, id \in RawKey : PairInsert(s, value, id)
    \/ \E s \in Side, key \in PairKey, value \in PairValue :
          \E rnd \in Draws(key) : PairInsertAs(s, key, value, rnd)
    \/ \E s \in Side, key \in PairKey, value \in PairValue :
          \E rnd \in Draws(key) : PairForceInsertAs(s, key, value, rnd)
    \/ \E s \in Side, value \in PairValue :
          \E rnd \in Draws(get_key(value)) : PairBuildInsert(s, value, rnd)
    \/ \E s \in Side, value \in PairValue :
          \E rnd \in Draws(get_key(value)) : PairForceBuildInsert(s, value, rnd)
    \/ \E s \in Side, id \in RawKey : PairRemove(s, id)
    \/ \E s \in Side : PairClear(s)
    \/ PairNew
    \/ PairClone

PairSpec == PairInit /\ [][PairNext]_vars

\* ================================================================ claims
\* The call op has just returned: last, pre, ret and visited describe it.
Returned(op) == pc = "returned" /\ last.op = op

\* C1: whenever insert(v) returns a handle h, then in the state right after
\* the call contains_id(h) is true, try_get(h) is Some(v) and get(h) yields v
\* without a panic.
C1_InsertThenGet ==
    Returned("insert") =>
        LET h == ret[1]
        IN /\ contains_id(map, h)
           /\ try_get(map, h) = Some(last.val)
           /\ ~get(map, h).panic
           /\ get(map, h).val = last.val

\* An insert into a map that already holds two entries has returned.
C1_Witness == Returned("insert") /\ len(pre) >= 2 /\ last.val = MaxVal

\* C2: insert_as(k, v2) with the raw key of k in use returns None and leaves
\* the map as it was (same len, the entry under that key still the earlier
\* value); with the raw key not in use it returns Some(handle) and the handle
\* resolves to v2.
C2_InsertAsNoOverwrite ==
    Returned("insert_as") =>
        IF contains_id(pre, last.id)
        THEN /\ ret = None
             /\ map = pre
             /\ len(map) = len(pre)
             /\ try_get(map, last.id) = Some(pre[last.id])
        ELSE /\ ret = Some(last.id)
             /\ try_get(map, last.id) = Some(last.val)
             /\ len(map) = len(pre) + 1

\* insert_as with a fixed key that is in use under another value has returned.
C2_Witness ==
    /\ Returned("insert_as")
    /\ last.key[1] # "Random"
    /\ contains_id(pre, last.id)
    /\ pre[last.id] # last.val

\* What a second force_insert_as(k, v2) does right after force_insert_as(k, v1)
\* has returned h: for every v2 and every draw of the random source, it
\* returns h again, h resolves to v2 and len is unchanged.
SecondForceInsertAs(k, h) ==
    \A v2 \in Value, rnd \in Draws(k) :
        LET r == force_insert_as(map, Id_new(k, rnd), v2)
        IN /\ r.ret = h
           /\ try_get(r.map, h) = Some(v2)
           /\ len(r.map) = len(map)

\* C3 as stated: for every key k, Key::Random included, two calls of
\* force_insert_as with k return equal handles, the handle resolves to the
\* second value and the second call leaves len unchanged; and every call
\* returns a handle that resolves to the value just passed.
C3_AsStated ==
    Returned("force_insert_as") =>
        /\ try_get(map, ret[1]) = Some(last.val)
        /\ SecondForceInsertAs(last.key, ret[1])

\* C3 amended: the handle force_insert_as returns always resolves to the value
\* just passed, for every key; and for every key other than Key::Random a
\* second call with the same key returns the same handle, replaces the value
\* and leaves len unchanged.
C3_ForceInsertAs ==
    Returned("force_insert_as") =>
        /\ try_get(map, ret[1]) = Some(last.val)
        /\ ret[1] = last.id
        /\ last.key[1] # "Random" => SecondForceInsertAs(last.key, ret[1])
        /\ contains_id(pre, last.id) => len(map) = len(pre)

\* force_insert_as with a fixed key has replaced another value.
C3_Witness ==
    /\ Returned("force_insert_as")
    /\ last.key[1] # "Random"
    /\ contains_id(pre, last.id)
    /\ pre[last.id] # last.val
    /\ map[last.id] = last.val

\* C4: remove(h) of a present handle returns the value stored under h and
\* decreases len by one; right afterwards contains_id(h) is false and a
\* second remove(h) returns None and leaves the map as it is.  remove of a
\* handle that is not present returns None and changes nothing.
C4_Remove ==
    Returned("remove") =>
        IF contains_id(pre, last.id)
        THEN /\ ret = Some(pre[last.id])
             /\ len(map) = len(pre) - 1
             /\ ~contains_id(map, last.id)
             /\ remove(map, last.id) = [map |-> map, ret |-> None]
        ELSE /\ ret = None
             /\ map = pre

\* A present handle has been removed from a map of two or more entries.
C4_Witness == Returned("remove") /\ contains_id(pre, last.id) /\ len(pre) >= 2

\* C5: the handle insert mints is not in use when the value is stored: no
\* entry of the map before the call is overwritten, len grows by exactly one
\* (whatever the value), and n inserts with no remove or clear between them
\* have returned n different handles.
C5_FreshHandles ==
    /\ Cardinality(minted.ids) = minted.n
    /\ Returned("insert") =>
           /\ ~contains_id(pre, ret[1])
           /\ len(map) = len(pre) + 1
           /\ \A k \in DOMAIN pre : try_get(map, k) = Some(pre[k])

\* The third insert in a row of equal values has returned.
C5_Witness ==
    /\ Returned("insert")
    /\ minted.n >= 3
    /\ \A k \in DOMAIN map : map[k] = last.val

\* C6: after clear() on a map of any number of entries, len is 0, is_empty is
\* true, and no handle resolves: contains_id is false and try_get is None for
\* every handle, those issued before the clear included.
C6_Clear ==
    Returned("clear") =>
        /\ len(map) = 0
        /\ is_empty(map)
        /\ \A h \in RawKey : ~contains_id(map, h) /\ try_get(map, h) = None

\* A map of two or more entries has been cleared.
C6_Witness == Returned("clear") /\ len(pre) >= 2

\* C7: for_one and for_one_mut call the visitor exactly once, on the value
\* stored under h, when h is present, and return Some(its result); the
\* mutation of for_one_mut is what try_get(h) yields afterwards and no other
\* entry changes.  When h is not present they return None, the visitor is not
\* called and the map is unchanged.
C7_ForOne ==
    /\ Returned("for_one") =>
           /\ map = pre
           /\ IF contains_id(pre, last.id)
              THEN /\ visited = <<<<last.id, pre[last.id]>>>>
                   /\ ret = Some(Visit(last.f, pre[last.id]))
              ELSE /\ visited = <<>>
                   /\ ret = None
    /\ Returned("for_one_mut") =>
           IF contains_id(pre, last.id)
           THEN /\ visited = <<<<last.id, pre[last.id]>>>>
                /\ ret = Some(Visit(last.f, pre[last.id]))
                /\ try_get(map, last.id) = Some(Visit(last.f, pre[last.id]))
                /\ DOMAIN map = DOMAIN pre
                /\ \A k \in DOMAIN pre \ {last.id} : map[k] = pre[k]
           ELSE /\ visited = <<>>
                /\ ret = None
                /\ map = pre

\* for_one_mut has changed the value of a present handle.
C7_Witness ==
    /\ Returned("for_one_mut")
    /\ contains_id(pre, last.id)
    /\ map[last.id] # pre[last.id]
    /\ len(pre) >= 2

\* The visitor ran once per entry of m: as many calls as entries, each with
\* a different handle and the value stored under it, so that every value is
\* visited as often as it is stored.
VisitedEachOnce(m) ==
    /\ Len(visited) = len(m)
    /\ \A i, j \in DOMAIN visited : i # j => visited[i][1] # visited[j][1]
    /\ \A i \in DOMAIN visited :
           /\ contains_id(m, visited[i][1])
           /\ visited[i][2] = m[visited[i][1]]
    /\ \A v \in Value :
           Cardinality({i \in DOMAIN visited : visited[i][2] = v})
               = Cardinality({k \in DOMAIN m : m[k] = v})

\* C8: for_all and for_all_mut call the visitor exactly once per entry
\* present; for_all leaves the map unchanged; for_all_mut applies the
\* mutation to every entry exactly once and changes no handle and no len.
C8_ForAll ==
    /\ Returned("for_all") => VisitedEachOnce(pre) /\ map = pre
    /\ Returned("for_all_mut") =>
           /\ VisitedEachOnce(pre)
           /\ DOMAIN map = DOMAIN pre
           /\ len(map) = len(pre)
           /\ \A k \in DOMAIN pre : map[k] = Visit(last.f, pre[k])

\* for_all_mut has changed the values of a map of three entries.
C8_Witness ==
    /\ Returned("for_all_mut")
    /\ len(pre) = 3
    /\ \A k \in DOMAIN pre : map[k] # pre[k]

\* C9: build_insert(v) does what insert_as(v.get_key(), v) does, and
\* force_build_insert(v) what force_insert_as(v.get_key(), v) does: with the
\* key of v in use, build_insert returns None and the earlier value stays,
\* and force_build_insert replaces it, so that the handle resolves to v.
C9_BuildInsert ==
    /\ Returned("build_insert") =>
           /\ last.id = Id_new(get_key(last.val), NoId)
           /\ [map |-> map, ret |-> ret] = insert_as(pre, last.id, last.val)
           /\ IF contains_id(pre, last.id)
              THEN ret = None /\ map = pre
              ELSE ret = Some(last.id) /\ map = hm_insert(pre, last.id, last.val)
    /\ Returned("force_build_insert") =>
           /\ last.id = Id_new(get_key(last.val), NoId)
           /\ [map |-> map, ret |-> ret]
                  = [map |-> force_insert_as(pre, last.id, last.val).map,
                     ret |-> Some(force_insert_as(pre, last.id, last.val).ret)]
           /\ ret = Some(last.id)
           /\ map = hm_insert(pre, last.id, last.val)
           /\ try_get(map, last.id) = Some(last.val)

\* build_insert has been refused: the key is in use under another value.
C9_Witness ==
    /\ Returned("build_insert")
    /\ contains_id(pre, last.id)
    /\ pre[last.id] # last.val
    /\ ret = None

\* C10: an insert that has been called returns (no fatal condition exists in
\* the code, so returning is the only way it can end).
C10_InsertTerminates == (pc = "new_for") ~> (pc = "returned")

\* The handle h has no match in the map m: every lookup with it reports
\* absence and remove(h) returns None and leaves m as it was.
NoMatch(m, h) ==
    /\ ~contains_id(m, h)
    /\ try_get(m, h) = None
    /\ \A f \in Visitor : for_one(m, h, f).ret = None
    /\ remove(m, h) = [map |-> m, ret |-> None]

\* C11 as stated: a handle that an insertion into a has returned and no
\* insertion into b has returned has no match in b. A clone of a refutes it.
C11_AsStated == \A h \in pair.a.issued \ pair.b.issued : NoMatch(pair.b.map, h)

\* C11: a handle that an insertion into a has returned and no insertion into
\* b has returned has no match in b, whatever b holds, when b was not made by
\* clone: contains_id is false, try_get and for_one give None, and remove
\* gives None and leaves b unchanged.
C11_WrongContainer == ~pair.b.cloned => C11_AsStated

C11_Witness ==
    /\ ~pair.b.cloned
    /\ pair.b.map # EmptyMap
    /\ \E h \in pair.a.issued \ pair.b.issued : contains_id(pair.a.map, h)

\* C12 as stated: a handle whose entry remove or clear has dropped does not
\* resolve in any later state. An insertion under the same raw key refutes it.
C12_AsStated ==
    \A h \in stale.ever : ~contains_id(map, h) /\ try_get(map, h) = None

\* C12: a handle whose entry remove or clear has dropped does not resolve
\* (contains_id false, try_get None) in any later state, whatever calls
\* follow, for as long as no insertion has returned that handle again.
C12_StaleHandle ==
    \A h \in stale.now : ~contains_id(map, h) /\ try_get(map, h) = None

C12_Witness ==
    /\ stale.now # {}
    /\ map # EmptyMap
    /\ pc = "returned" /\ last.op \in Insertions

\* Every container the methods can build over the raw keys.
AllMaps == UNION {[S -> Value] : S \in SUBSET RawKey}

\* C13 as stated, for the forcing insertions: the result of force_insert_as /
\* force_build_insert tells whether an entry was overwritten, that is, the
\* same call on a container that differs in holding the key gives another
\* result. The code returns the handle alone, which refutes it.
C13_AsStated ==
    (Returned("force_insert_as") \/ Returned("force_build_insert")) =>
        \A m \in AllMaps :
            contains_id(m, last.id) # contains_id(pre, last.id) =>
                Some(force_insert_as(m, last.id, last.val).ret) # ret

\* C13: the result of a mutating call tells its caller what happened, except
\* for an overwrite. insert returns the handle; insert_as / build_insert
\* return None exactly when the key was in use and the handle otherwise;
\* remove returns None exactly when the handle was absent and the removed
\* value otherwise; force_insert_as / force_build_insert return the handle,
\* the same whether an entry was overwritten or not.
C13_Results ==
    /\ Returned("insert") => ret = Some(last.id) /\ ~contains_id(pre, last.id)
    /\ (Returned("insert_as") \/ Returned("build_insert")) =>
          ret = IF contains_id(pre, last.id) THEN None ELSE Some(last.id)
    /\ Returned("remove") =>
          ret = IF contains_id(pre, last.id) THEN Some(pre[last.id]) ELSE None
    /\ (Returned("force_insert_as") \/ Returned("force_build_insert")) =>
          /\ ret = Some(last.id)
          /\ \A m \in AllMaps : Some(force_insert_as(m, last.id, last.val).ret) = ret

C13_Witness ==
    /\ Returned("force_insert_as")
    /\ contains_id(pre, last.id)
    /\ pre[last.id] # last.val
    /\ ret = Some(last.id)

RECURSIVE BigEndian(_, _)
BigEndian(b, i) == IF i = 0 THEN 0 ELSE BigEndian(b, i - 1) * ByteBase + b[i]

\* The raw key a key other than Key::Random is to derive: the bytes whose
\* big-endian number is n, the array itself, or the bytes of the string cut
\* to the key width and filled with zero bytes on the right.
Derived(key) ==
    CASE key[1] = "Value" -> CHOOSE b \in RawKey : BigEndian(b, KeyWidth) = key[2]
      [] key[1] = "Array" -> key[2]
      [] key[1] = "Str" ->
            [i \in 1..KeyWidth |-> IF i <= Len(key[2]) THEN key[2][i] ELSE 0]

\* C15: the handle that insert_as / force_insert_as derive from a key other
\* than Key::Random is the raw key described above, whatever the random
\* source yields; and once insert_as has stored a value under a key, insert_as
\* with any key deriving the same raw bytes is rejected as a duplicate (None,
\* the container unchanged), the first value staying stored.
C15_KeyDerivation ==
    /\ (Returned("insert_as") \/ Returned("force_insert_as")) /\ last.key # KeyRandom =>
          /\ last.id = Derived(last.key)
          /\ \A rnd \in RawKey : Id_new(last.key, rnd) = last.id
    /\ Returned("insert_as") /\ ret # None =>
          \A k \in Key \ {KeyRandom} :
              Derived(k) = last.id =>
                  \A v \in Value, rnd \in Draws(k) :
                      /\ insert_as(map, Id_new(k, rnd), v) = [map |-> map, ret |-> None]
                      /\ try_get(map, Id_new(k, rnd)) = Some(last.val)
    /\ Returned("insert_as") /\ last.key # KeyRandom
            /\ contains_id(pre, Derived(last.key)) =>
          ret = None /\ map = pre

C15_Witness ==
    /\ Returned("insert_as")
    /\ last.key[1] = "Str"
    /\ Len(last.key[2]) > KeyWidth
    /\ ret = None
    /\ map = pre
    /\ contains_id(pre, Derived(last.key))

\* Every binding of the container but the one at h is as before the call.
FrameAt(h) == \A k \in RawKey \ {h} : hm_get(map, k) = hm_get(pre, k)

SingleEntryOps ==
    Insertions \cup {"remove", "for_one_mut", "try_get_mut", "get_mut"}
ReadOnlyOps ==
    {"contains_id", "try_get", "get", "for_one", "for_all", "len", "is_empty",
     "capacity"}

\* C16: a call of insert, insert_as, force_insert_as (with any key, Key::Random
\* included), build_insert, force_build_insert, remove, for_one_mut,
\* try_get_mut or get_mut leaves every binding other than the one at the
\* handle it returns or is given as it was; a call of contains_id, try_get,
\* get, for_one, for_all, len, is_empty or capacity, and a call of get that
\* panics, leaves the whole container as it was.
C16_Frame ==
    /\ pc = "returned" /\ last.op \in SingleEntryOps => FrameAt(last.id)
    /\ pc = "returned" /\ last.op \in ReadOnlyOps => map = pre
    /\ pc \in {"new_for", "panicked"} => map = pre

C16_Witness ==
    /\ Returned("force_insert_as")
    /\ last.key = KeyRandom
    /\ contains_id(pre, last.id)
    /\ map[last.id] # pre[last.id]
    /\ \E k \in RawKey \ {last.id} : contains_id(pre, k) /\ map[k] = pre[k]

\* The handles that resolve in the map m.
Resolving(m) == {h \in RawKey : contains_id(m, h)}

\* The change of len the call that has just returned is to make.
LenDelta ==
    CASE last.op = "insert" -> 1
      [] last.op \in {"insert_as", "build_insert"} -> IF ret # None THEN 1 ELSE 0
      [] last.op \in {"force_insert_as", "force_build_insert"} ->
            IF contains_id(pre, last.id) THEN 0 ELSE 1
      [] last.op = "remove" -> IF ret # None THEN 0 - 1 ELSE 0
      [] last.op = "clear" -> 0 - len(pre)
      [] OTHER -> 0

\* C17: in every reachable state len is the number of handles that resolve
\* and is_empty holds exactly when len is 0, also as the calls of len and
\* is_empty return them; and a call changes len by +1 when it is insert, an
\* insert_as / build_insert that stored, or a force_insert_as /
\* force_build_insert on a key not in use, by -1 when it is a remove that
\* removed, to 0 when it is clear, and not at all otherwise.
C17_Len ==
    /\ len(map) = Cardinality(Resolving(map))
    /\ is_empty(map) <=> len(map) = 0
    /\ Returned("len") => ret = Some(Cardinality(Resolving(map)))
    /\ Returned("is_empty") => ret = Some(Resolving(map) = {})
    /\ pc = "returned" => len(map) = len(pre) + LenDelta
    /\ Returned("clear") => len(map) = 0
    /\ pc \in {"new_for", "panicked"} => len(map) = len(pre)

C17_Witness ==
    /\ Returned("remove")
    /\ ret # None
    /\ len(map) = len(pre) - 1
    /\ ~is_empty(map)

====
